---- MODULE Spec2Model ----
(***************************************************************************)
(* check-permission.py: an exec data source.  One invocation reads a JSON  *)
(* request from standard input, looks the operator's permission up in the  *)
(* PERMISSIONS table and prints a one-row table to standard output, or a   *)
(* diagnostic to standard error with exit code 1.                          *)
(*                                                                         *)
(* Python values are tagged records; a dict is an insertion-ordered        *)
(* sequence of <<key, value>> pairs with distinct keys.                    *)
(***************************************************************************)
EXTENDS Integers, Sequences, FiniteSets, TLC

\* Number of invocations the host makes in one behaviour.
MaxRuns == 2

----------------------------------------------------------------------------
\* Python / JSON values

None == [t |-> "null"]
B(b) == [t |-> "bool", b |-> b]
N(n) == [t |-> "num", n |-> n]
NaN == [t |-> "nan"]
S(s) == [t |-> "str", s |-> s]
L(items) == [t |-> "list", items |-> items]
D(kv) == [t |-> "dict", kv |-> kv]
\* a local name main() has not assigned yet
Unbound == [t |-> "unbound"]

\* type(v).__name__, as it appears in an AttributeError message
TypeName(v) ==
    CASE v.t = "null" -> "NoneType"
      [] v.t = "bool" -> "bool"
      [] v.t = "num" -> "int"
      [] v.t = "nan" -> "float"
      [] v.t = "str" -> "str"
      [] v.t = "list" -> "list"
      [] v.t = "dict" -> "dict"

\* variant: `if permission is None` in place of `if not permission`
Truthy_is_not_None(v) == v.t # "null"

\* bool(v): the truth value that `not permission` tests
Truthy(v) ==
    CASE v.t = "null" -> FALSE
      [] v.t = "bool" -> v.b
      [] v.t = "num" -> v.n # 0
      [] v.t = "nan" -> TRUE
      [] v.t = "str" -> v.s # ""
      [] v.t = "list" -> Len(v.items) # 0
      [] v.t = "dict" -> Len(v.kv) # 0

\* hash(v) succeeds: lists and dicts are unhashable
Hashable(v) == v.t \notin {"list", "dict"}

\* a == b between a value and a str element of a permission list
EqStr(v, s) == v.t = "str" /\ v.s = s

\* d.get(key, default) on a dict d
DictGet(d, key, default) ==
    LET idx == {i \in 1..Len(d.kv) : d.kv[i][1] = key}
    IN  IF idx = {} THEN default ELSE d.kv[CHOOSE i \in idx : TRUE][2]

\* d[key] = value: overwrite in place when the key exists, else append
DictSet(kv, key, value) ==
    IF \E i \in 1..Len(kv) : kv[i][1] = key
    THEN [i \in 1..Len(kv) |-> IF kv[i][1] = key THEN <<key, value>> ELSE kv[i]]
    ELSE Append(kv, <<key, value>>)

----------------------------------------------------------------------------
\* json.load / json.dumps

RECURSIVE Decode(_)
RECURSIVE DecodePairs(_, _)
\* the object built from the members of a JSON object text, in order:
\* a repeated member name keeps its first position and its last value
DecodePairs(members, acc) ==
    IF members = <<>> THEN acc
    ELSE DecodePairs(Tail(members),
                     DictSet(acc, Head(members)[1], Decode(Head(members)[2])))

\* the Python value of a parsed JSON text
Decode(tree) ==
    CASE tree.t = "dict" -> D(DecodePairs(tree.kv, <<>>))
      [] tree.t = "list" -> L([i \in 1..Len(tree.items) |-> Decode(tree.items[i])])
      [] OTHER -> tree

\* json.load(sys.stdin): the value, or the exception raised
json_load(stream) ==
    CASE stream.text = "garbage" ->
             [raise |-> "JSONDecodeError", detail |-> "Expecting value: line 1 column 1 (char 0)"]
      [] stream.text = "overlimit" ->
             [raise |-> "RecursionError", detail |-> "maximum recursion depth exceeded"]
      [] OTHER -> [raise |-> "none", value |-> Decode(stream.doc)]

RECURSIVE json_dumps(_)
RECURSIVE JoinItems(_, _)
RECURSIVE JoinPairs(_, _)
JoinItems(items, i) ==
    IF i > Len(items) THEN ""
    ELSE (IF i > 1 THEN ", " ELSE "") \o json_dumps(items[i]) \o JoinItems(items, i + 1)

JoinPairs(kv, i) ==
    IF i > Len(kv) THEN ""
    ELSE (IF i > 1 THEN ", " ELSE "") \o "\"" \o kv[i][1] \o "\": "
         \o json_dumps(kv[i][2]) \o JoinPairs(kv, i + 1)

\* json.dumps(v) with the default separators and allow_nan
json_dumps(v) ==
    CASE v.t = "null" -> "null"
      [] v.t = "bool" -> IF v.b THEN "true" ELSE "false"
      [] v.t = "num" -> ToString(v.n)
      [] v.t = "nan" -> "NaN"
      [] v.t = "str" -> "\"" \o v.s \o "\""
      [] v.t = "list" -> "[" \o JoinItems(v.items, 1) \o "]"
      [] v.t = "dict" -> "{" \o JoinPairs(v.kv, 1) \o "}"

----------------------------------------------------------------------------
\* The permission table

PermissionTable ==
    [o \in {"alice", "bob", "charlie"} |->
        CASE o = "alice" -> L(<<S("prod-db-read"), S("prod-db-write"), S("deploy-staging")>>)
          [] o = "bob" -> L(<<S("prod-db-read"), S("deploy-staging"), S("deploy-prod")>>)
          [] o = "charlie" -> L(<<S("prod-db-read")>>)]

\* variant: `allowed = bool(user_perms)`, any grant counts
Contains_any_grant(permission, user_perms) == Len(user_perms.items) > 0

\* permission in user_perms
Contains(permission, user_perms) ==
    \E i \in 1..Len(user_perms.items) : EqStr(permission, user_perms.items[i].s)

----------------------------------------------------------------------------
\* Requests the host may send

PermissionTexts ==
    {S("prod-db-write"), S("PROD-DB-WRITE"), S("deploy-prod"), S(""), None, N(5), NaN}

OperatorTexts ==
    {S("alice"), S("Alice"), None, N(7), L(<<S("alice")>>)}

QueryTexts ==
    {D(<<>>), None}
    \cup {D(<<<<"permission", p>>>>) : p \in PermissionTexts}
    \cup {D(<<<<"permission", S("")>>, <<"table", S("users")>>, <<"permission", S("deploy-prod")>>>>),
          D(<<<<"table", S("users")>>>>)}

EnvTexts ==
    {D(<<>>), None} \cup {D(<<<<"operator", o>>>>) : o \in OperatorTexts}

Members(name, texts) == {<<>>} \cup {<<<<name, x>>>> : x \in texts}

DocumentTexts ==
    {D(q \o e) : q \in Members("query", QueryTexts), e \in Members("env", EnvTexts)}
    \cup {L(<<>>), S("not-a-document")}

\* what standard input can carry: one JSON-like document, text that is no
\* document (empty, garbage, trailing data), or a document beyond the
\* interpreter's nesting or integer-size limits
Streams ==
    {[text |-> "document", doc |-> d] : d \in DocumentTexts}
    \cup {[text |-> "garbage", doc |-> None], [text |-> "overlimit", doc |-> None]}

\* os.environ.get("USER"): None when the variable is not set
UserValues == {None, S("bob")}

----------------------------------------------------------------------------
VARIABLES
    pc,           \* position of the run in main()
    stdin,        \* the text on standard input
    eof,          \* the host has closed standard input
    USER,         \* the process environment's USER variable
    PERMISSIONS,  \* the module-level permission table
    input_data, query, env, permission, operator, user_perms, allowed,
    response,     \* the dict handed to json.dumps
    exc,          \* the exception being handled
    stdout, stderr, exit_code,
    path,         \* the positions this run has been through
    runs,         \* invocations started so far
    prev          \* what the host observed of the previous invocation

locals == <<input_data, query, env, permission, operator, user_perms, allowed, response, exc>>
streams == <<stdout, stderr, exit_code>>
host == <<stdin, USER, PERMISSIONS, runs, prev>>
vars == <<pc, eof, locals, streams, host, path>>

NoExc == [raise |-> "none"]

Goto(p) == pc' = p /\ path' = Append(path, p)

Fresh ==
    /\ pc = "Start" /\ path = <<"Start">>
    /\ eof = FALSE
    /\ input_data = Unbound /\ query = Unbound /\ env = Unbound
    /\ permission = Unbound /\ operator = Unbound
    /\ user_perms = Unbound /\ allowed = Unbound /\ response = Unbound
    /\ exc = NoExc
    /\ stdout = <<>> /\ stderr = <<>> /\ exit_code = <<>>

Init ==
    /\ Fresh
    /\ stdin \in Streams
    /\ USER \in UserValues
    /\ PERMISSIONS = PermissionTable
    /\ runs = 1
    /\ prev = <<>>

\* the interpreter enters main() and json.load starts reading
Begin ==
    /\ pc = "Start"
    /\ Goto("Reading")
    /\ UNCHANGED <<eof, locals, streams, host>>

\* the host closes its end of standard input
HostClose ==
    /\ ~eof
    /\ pc \in {"Start", "Reading"}
    /\ eof' = TRUE
    /\ UNCHANGED <<pc, path, locals, streams, host>>

\* line 32: input_data = json.load(sys.stdin)
Load ==
    /\ pc = "Reading" /\ eof
    /\ LET r == json_load(stdin)
       IN  CASE r.raise = "none" ->
                    /\ input_data' = r.value /\ exc' = exc /\ Goto("Parsed")
             [] r.raise = "JSONDecodeError" ->
                    /\ input_data' = input_data /\ exc' = r /\ Goto("ParseFailed")
             [] OTHER ->
                    /\ input_data' = input_data /\ exc' = r /\ Goto("Failed")
    /\ UNCHANGED <<eof, query, env, permission, operator, user_perms, allowed, response,
                   streams, host>>

AttributeError(v) ==
    [raise |-> "AttributeError",
     detail |-> "'" \o TypeName(v) \o "' object has no attribute 'get'"]

\* variant: the fallback skips the environment
environ_get_USER_skipped == S("unknown")

\* os.environ.get("USER", "unknown")
environ_get_USER == IF USER = None THEN S("unknown") ELSE USER

\* lines 33-39: read query, env, permission and operator, then test permission
ExtractAndValidate ==
    /\ pc = "Parsed"
    /\ IF input_data.t # "dict"
       THEN /\ exc' = AttributeError(input_data) /\ Goto("Failed")
            /\ UNCHANGED <<query, env, permission, operator>>
       ELSE LET q == DictGet(input_data, "query", D(<<>>))
                e == DictGet(input_data, "env", D(<<>>))
            IN  /\ query' = q /\ env' = e
                /\ IF q.t # "dict"
                   THEN /\ exc' = AttributeError(q) /\ Goto("Failed")
                        /\ UNCHANGED <<permission, operator>>
                   ELSE /\ permission' = DictGet(q, "permission", None)
                        /\ IF e.t # "dict"
                           THEN /\ exc' = AttributeError(e) /\ Goto("Failed")
                                /\ UNCHANGED operator
                           ELSE /\ operator' = DictGet(e, "operator", environ_get_USER)
                                /\ exc' = exc
                                /\ IF Truthy(permission')
                                   THEN Goto("Validated")
                                   ELSE Goto("ValidationFailed")
    /\ UNCHANGED <<eof, input_data, user_perms, allowed, response, streams, host>>

\* variant: PERMISSIONS.setdefault(operator, []) inserts the missing operator
StoreAfterGet_setdefault(store, o) ==
    IF o.t = "str" /\ o.s \notin DOMAIN store
    THEN [k \in DOMAIN store \cup {o.s} |-> IF k \in DOMAIN store THEN store[k] ELSE L(<<>>)]
    ELSE store

\* PERMISSIONS after PERMISSIONS.get(operator, []): get never inserts
StoreAfterGet(store, o) == store

\* lines 43-44: user_perms = PERMISSIONS.get(operator, []); allowed = permission in user_perms
Resolve ==
    /\ pc = "Validated"
    /\ IF ~Hashable(operator)
       THEN /\ exc' = [raise |-> "TypeError",
                       detail |-> "unhashable type: '" \o TypeName(operator) \o "'"]
            /\ Goto("Failed")
            /\ UNCHANGED <<user_perms, allowed>>
       ELSE /\ user_perms' = IF operator.t = "str" /\ operator.s \in DOMAIN PERMISSIONS
                             THEN PERMISSIONS[operator.s] ELSE L(<<>>)
            /\ allowed' = B(Contains(permission, user_perms'))
            /\ exc' = exc
            /\ Goto("Resolved")
    /\ PERMISSIONS' = IF Hashable(operator) THEN StoreAfterGet(PERMISSIONS, operator)
                       ELSE PERMISSIONS
    /\ UNCHANGED <<eof, input_data, query, env, permission, operator, response, streams,
                   stdin, USER, runs, prev>>

\* the dict literal of lines 46-53
Response(o, p, a) ==
    D(<< <<"columns", L(<<S("operator"), S("permission"), S("allowed")>>)>>,
         <<"rows", L(<< D(<< <<"operator", o>>, <<"permission", p>>, <<"allowed", a>> >>) >>)>> >>)

\* lines 46-53: print(json.dumps({...})); main() returns and the process exits 0
Emit ==
    /\ pc = "Resolved"
    /\ response' = Response(operator, permission, allowed)
    /\ stdout' = Append(stdout, json_dumps(response'))
    /\ exit_code' = <<0>>
    /\ Goto("Emitted")
    /\ UNCHANGED <<eof, input_data, query, env, permission, operator, user_perms, allowed,
                   exc, stderr, host>>

\* variant: the diagnostic is printed but sys.exit(1) is left out
ReportMissing_no_exit ==
    /\ pc = "ValidationFailed"
    /\ stderr' = Append(stderr, "Missing 'permission' in query")
    /\ Goto("Validated")
    /\ UNCHANGED <<eof, locals, stdout, exit_code, host>>

\* lines 40-41: print("Missing 'permission' in query", file=sys.stderr); sys.exit(1)
ReportMissing ==
    /\ pc = "ValidationFailed"
    /\ stderr' = Append(stderr, "Missing 'permission' in query")
    /\ exit_code' = <<1>>
    /\ Goto("Emitted")
    /\ UNCHANGED <<eof, locals, stdout, host>>

\* lines 55-57: except json.JSONDecodeError
ReportInvalidJSON ==
    /\ pc = "ParseFailed"
    /\ stderr' = Append(stderr, "Invalid JSON input: " \o exc.detail)
    /\ exit_code' = <<1>>
    /\ Goto("Emitted")
    /\ UNCHANGED <<eof, locals, stdout, host>>

\* lines 58-60: except Exception
ReportError ==
    /\ pc = "Failed"
    /\ stderr' = Append(stderr, "Error: " \o exc.detail)
    /\ exit_code' = <<1>>
    /\ Goto("Emitted")
    /\ UNCHANGED <<eof, locals, stdout, host>>

\* the host spawns the process again; nothing of the old process survives
\* except the module source, hence the table
HostInvoke ==
    /\ pc = "Emitted"
    /\ runs < MaxRuns
    /\ prev' = <<[stdin |-> stdin, USER |-> USER, stdout |-> stdout,
                  stderr |-> stderr, exit_code |-> exit_code]>>
    /\ runs' = runs + 1
    /\ stdin' \in Streams
    /\ USER' \in UserValues
    /\ PERMISSIONS' = PermissionTable
    /\ pc' = "Start" /\ path' = <<"Start">>
    /\ eof' = FALSE
    /\ input_data' = Unbound /\ query' = Unbound /\ env' = Unbound
    /\ permission' = Unbound /\ operator' = Unbound
    /\ user_perms' = Unbound /\ allowed' = Unbound /\ response' = Unbound
    /\ exc' = NoExc
    /\ stdout' = <<>> /\ stderr' = <<>> /\ exit_code' = <<>>

Step ==
    \/ Begin
    \/ Load
    \/ ExtractAndValidate
    \/ Resolve
    \/ Emit
    \/ ReportMissing
    \/ ReportInvalidJSON
    \/ ReportError

Next ==
    \/ Step
    \/ HostClose
    \/ HostInvoke

Spec == Init /\ [][Next]_vars

NextOnce ==
    \/ Step
    \/ HostClose

\* one invocation, scheduled as a sequential program: a step that can run, runs
FairSpec == Init /\ [][NextOnce]_vars /\ WF_vars(Step)

----------------------------------------------------------------------------
\* What a request asks for, read off the text on standard input

Absent == [t |-> "absent"]

\* the value of member `name` of a JSON object text (the last one, when the
\* name is repeated), Absent when there is none
TextMember(tree, name) ==
    IF tree.t # "dict" THEN Absent
    ELSE LET idx == {i \in 1..Len(tree.kv) : tree.kv[i][1] = name}
         IN  IF idx = {} THEN Absent
             ELSE tree.kv[CHOOSE i \in idx : \A j \in idx : j <= i][2]

ReqPermission(stream) == TextMember(TextMember(stream.doc, "query"), "permission")
ReqOperator(stream) == TextMember(TextMember(stream.doc, "env"), "operator")

\* the request is a document whose query has no permission entry, or an empty one
LacksPermission(stream) ==
    /\ stream.text = "document"
    /\ ReqPermission(stream) \in {Absent, None, S(""), L(<<>>), D(<<>>)}

RECURSIVE HasNaN(_)
HasNaN(v) ==
    CASE v.t = "nan" -> TRUE
      [] v.t = "list" -> \E i \in 1..Len(v.items) : HasNaN(v.items[i])
      [] v.t = "dict" -> \E i \in 1..Len(v.kv) : HasNaN(v.kv[i][2])
      [] OTHER -> FALSE

\* the text is one JSON document in the sense of RFC 8259, which has no NaN literal
WellFormedJSON(stream) == stream.text # "garbage" /\ ~HasNaN(stream.doc)

\* p is, by exact string equality, one of the permissions the table grants o
InStore(o, p) ==
    /\ o.t = "str" /\ p.t = "str"
    /\ o.s \in DOMAIN PermissionTable
    /\ \E i \in 1..Len(PermissionTable[o.s].items) : PermissionTable[o.s].items[i] = p

IsStoreKey(o) == o.t = "str" /\ o.s \in DOMAIN PermissionTable

Terminated == pc = "Emitted"
Succeeded == Terminated /\ stdout # <<>>
PassedThrough(p) == \E i \in 1..Len(path) : path[i] = p

\* the single row of the response that was printed
EmittedRow == DictGet(response, "rows", Absent).items[1]
Field(row, name) == DictGet(row, name, Absent)

MissingMessage == "Missing 'permission' in query"

----------------------------------------------------------------------------
\* C1: the allowed value of the emitted decision is exactly "the validated
\* permission is a member of the store's set for the resolved operator (the
\* empty set for an operator the store does not hold)", by exact string equality.
C1_AllowedIsMembership ==
    Succeeded => Field(EmittedRow, "allowed") = B(InStore(operator, permission))

\* alice holds prod-db-write but is refused PROD-DB-WRITE
C1_Witness ==
    /\ Succeeded
    /\ operator = S("alice") /\ permission = S("PROD-DB-WRITE")
    /\ Field(EmittedRow, "allowed") = B(FALSE)
    /\ prev # <<>>
    /\ prev[1].stdout = <<"{\"columns\": [\"operator\", \"permission\", \"allowed\"], \"rows\": [{\"operator\": \"alice\", \"permission\": \"prod-db-write\", \"allowed\": true}]}">>

\* C2: a validated request whose resolved operator is not a key of the store
\* never fails: a success response with allowed = false, exit code 0.
C2_DefaultDenyNeverFails ==
    (Terminated /\ PassedThrough("Validated") /\ ~IsStoreKey(operator))
        => /\ exit_code = <<0>>
           /\ stderr = <<>>
           /\ Len(stdout) = 1
           /\ Field(EmittedRow, "allowed") = B(FALSE)

\* C3: a request whose query has no permission entry, or an empty one, ends
\* with exit code 1 and nothing on standard output, whatever else it holds.
C3_MissingPermissionExits1 ==
    (Terminated /\ LacksPermission(stdin)) => (exit_code = <<1>> /\ stdout = <<>>)

\* no permission, but an operator and another query key
C3_Witness ==
    /\ Terminated
    /\ LacksPermission(stdin)
    /\ ReqOperator(stdin) = S("alice")
    /\ TextMember(TextMember(stdin.doc, "query"), "table") # Absent
    /\ stderr = <<MissingMessage>>

\* C4: a stream that is not one well-formed JSON document ends with exit code
\* 1, a diagnostic on standard error and nothing on standard output.
C4_MalformedExits1 ==
    (Terminated /\ ~WellFormedJSON(stdin))
        => (exit_code = <<1>> /\ Len(stderr) = 1 /\ stdout = <<>>)

\* C5: a terminated invocation either wrote exactly one well-formed response,
\* nothing to standard error and exited 0, or wrote nothing to standard
\* output, one diagnostic line and exited 1.
C5_ExactlyOneOutcome ==
    Terminated =>
        \/ /\ Len(stdout) = 1 /\ stderr = <<>> /\ exit_code = <<0>>
           /\ ~HasNaN(response)
        \/ /\ stdout = <<>> /\ Len(stderr) = 1 /\ exit_code = <<1>>

\* the operator the fallback chain of the request and the environment names
ExpectedOperator(stream, user) ==
    IF ReqOperator(stream) # Absent THEN ReqOperator(stream)
    ELSE IF user # None THEN user
    ELSE S("unknown")

\* C6: the emitted operator is env.operator when the request supplies it,
\* else USER when the environment has it, else "unknown".
C6_OperatorFallbackChain ==
    Succeeded => Field(EmittedRow, "operator") = ExpectedOperator(stdin, USER)

\* env.operator wins over USER = bob; the run before fell back to "unknown"
C6_Witness ==
    /\ Succeeded
    /\ ReqOperator(stdin) = S("alice") /\ USER = S("bob")
    /\ Field(EmittedRow, "operator") = S("alice")
    /\ prev # <<>>
    /\ prev[1].USER = None
    /\ prev[1].stdout = <<"{\"columns\": [\"operator\", \"permission\", \"allowed\"], \"rows\": [{\"operator\": \"unknown\", \"permission\": \"deploy-prod\", \"allowed\": false}]}">>

\* C7 as stated: two invocations given the same standard input write the same
\* bytes to standard output and exit with the same code.
C7_SameInputSameOutput ==
    (Terminated /\ prev # <<>> /\ prev[1].stdin = stdin)
        => (prev[1].stdout = stdout /\ prev[1].exit_code = exit_code)

\* C7 amended: two invocations given the same standard input and the same
\* USER environment write the same bytes and exit with the same code, and no
\* invocation changes the permission table.
C7_SameInputAndUserSameOutput ==
    /\ (Terminated /\ prev # <<>> /\ prev[1].stdin = stdin /\ prev[1].USER = USER)
           => (prev[1].stdout = stdout /\ prev[1].stderr = stderr
               /\ prev[1].exit_code = exit_code)
    /\ PERMISSIONS = PermissionTable

\* the same request twice under the same USER, answered from the fallback
C7_Witness ==
    /\ Succeeded
    /\ prev # <<>> /\ prev[1].stdin = stdin /\ prev[1].USER = USER
    /\ ReqOperator(stdin) = Absent /\ USER = S("bob")
    /\ Field(EmittedRow, "allowed") = B(TRUE)
    /\ prev[1].stdout = stdout

\* C8: a success response has columns ["operator","permission","allowed"] and
\* one row with exactly those keys in that order: operator a string,
\* permission a string equal to the requested one, allowed a boolean.
C8_ResponseSchema ==
    Succeeded =>
        \E o, p, a \in {operator, permission, allowed} :
            /\ response = Response(o, p, a)
            /\ stdout = <<json_dumps(Response(o, p, a))>>
            /\ o.t = "str"
            /\ p.t = "str" /\ p = ReqPermission(stdin)
            /\ a.t = "bool"

\* C9: a document that parses but lacks the permission is reported with the
\* fixed validation message, never with the parse or the generic message, and
\* the parse message is only produced for text that does not parse.
C9_DistinctDiagnostics ==
    Terminated =>
        /\ LacksPermission(stdin) => stderr = <<MissingMessage>>
        /\ PassedThrough("ParseFailed") => stdin.text = "garbage"

----------------------------------------------------------------------------
\* The state machine of one invocation

StatedTransitions ==
    {<<"Start", "Reading">>,
     <<"Reading", "Parsed">>, <<"Reading", "ParseFailed">>,
     <<"Parsed", "Validated">>, <<"Parsed", "ValidationFailed">>,
     <<"Validated", "Resolved">>,
     <<"Resolved", "Emitted">>,
     <<"ParseFailed", "Emitted">>, <<"ValidationFailed", "Emitted">>}

\* any other exception: caught by `except Exception`, reported, exit 1
UncategorizedTransitions ==
    {<<"Reading", "Failed">>, <<"Parsed", "Failed">>, <<"Validated", "Failed">>,
     <<"Failed", "Emitted">>}

\* the step from pc to pc' is one of the transitions T
Takes(T) == <<pc, pc'>> \in T

SuccessPath == <<"Start", "Reading", "Parsed", "Validated", "Resolved", "Emitted">>

\* what holds of every run whichever transitions are allowed: input is
\* consumed to its end before Reading is left, standard output is written
\* only at the end of the success path with exit code 0, every other end is
\* an error with exit code 1, the terminal state is never left, and a run
\* whose input has ended terminates
RunDiscipline ==
    /\ [][(pc = "Reading" /\ pc' # "Reading") => eof]_vars
    /\ [](stdout # <<>> => (pc = "Emitted" /\ path = SuccessPath /\ Len(stdout) = 1))
    /\ [](pc = "Emitted" =>
            IF path = SuccessPath
            THEN exit_code = <<0>> /\ Len(stdout) = 1 /\ stderr = <<>>
            ELSE exit_code = <<1>> /\ stdout = <<>> /\ Len(stderr) = 1)
    /\ [](pc # "Emitted" => (exit_code = <<>> /\ stderr = <<>>))
    /\ [][pc = "Emitted" => pc' = "Emitted"]_vars
    /\ (eof ~> pc = "Emitted")

\* C10 as stated: a run takes only the transitions Start -> Reading ->
\* {Parsed -> Validated -> Resolved -> Emitted} | {ParseFailed -> Emitted} |
\* {ValidationFailed -> Emitted}, terminates once its input has ended, and
\* writes a response only after Reading, Parsed, Validated and Resolved.
C10_StatedMachineOnly ==
    /\ [][Takes(StatedTransitions)]_pc
    /\ RunDiscipline

\* C10 amended: as stated, with the added state Failed (an uncategorized
\* failure), entered from Reading, Parsed or Validated and left only for
\* Emitted(error, exit 1).
C10_MachineWithUncategorizedFailure ==
    /\ [][Takes(StatedTransitions \cup UncategorizedTransitions)]_pc
    /\ RunDiscipline

\* a validated request that fails in the lookup and ends as an error
C10_Witness ==
    /\ pc = "Emitted"
    /\ path = <<"Start", "Reading", "Parsed", "Validated", "Failed", "Emitted">>
    /\ exit_code = <<1>>

====
